---- MODULE Spec2Model ----
(***************************************************************************)
(* Model of the judging engine of star-stack (src/server/judge.js):        *)
(* runCommand, prepareWorkspace, compileSource with its compile cache,     *)
(* judgeSubmission, runSample and runSamples, plus the pure helpers        *)
(* normalizeOutput, statusPriority and the score computation.              *)
(***************************************************************************)
EXTENDS Integers, Sequences, FiniteSets, TLC

VARIABLES
  compileCache,   \* keys of the module-level Map (the value is the path derived from the key)
  cacheFiles,     \* keys whose artifact file exists under CACHE_ROOT
  op,             \* public operation in progress: "none", "judge", "sample", "samples"
  language,       \* argument language
  code,           \* argument code
  testcases,      \* <<list>>: argument testcases (judge), inputs (samples), input (sample); <<>> if not passed
  pc,             \* position of the call in the async function
  wsRoot,         \* the call has a workspace directory whose removal it has not requested
  wsFiles,        \* files in the workspace directory
  compileResult,  \* <<value returned by compileSource>>, <<>> before
  child,          \* <<child process of the runCommand in flight>>, <<>> otherwise
  execResult,     \* <<value the last runCommand resolved with>>, <<>> once consumed
  results,        \* the results array of the call
  overallStatus,  \* the overallStatus local of the call
  ret,            \* <<value the call returned>>, <<>> while running
  trace,          \* history: what this call's compileSource saw and did with the cache
  spawned,        \* history: processes spawned by this call, by purpose
  killed,         \* history: processes of this call killed by the timer, by purpose
  runs,           \* history: input and outcome of each scored run of this call, in order
  focus,          \* <<language, code, testcases>> judged repeatedly (SpecTwice), <<>> otherwise
  prev,           \* history: <<summary of the previous call>> (SpecTwice), <<>> otherwise
  fnIn,           \* argument the pure function is applied to (SpecScore, SpecNorm)
  fnOut,          \* <<its result>>, <<>> before it is applied
  disk,           \* "faulty" if mkdir, mkdtemp and writeFile of the workspace can fail, else "ok"
  callers,        \* concurrent compileSource calls on one key (SpecRace): caller -> its position
  partial,        \* keys whose cache file is being written and is incomplete (SpecRace)
  missing,        \* commands of the toolchain that cannot be spawned on this host
  removal,        \* the promise of fs.promises.rm of the workspace: "none", "pending", "done", "failed"
  procs           \* the runCommand invocations of one call with their events (SpecRun), in spawn order

vars == <<compileCache, cacheFiles, op, language, code, testcases, pc, wsRoot,
          wsFiles, compileResult, child, execResult, results, overallStatus,
          ret, trace, spawned, killed, runs, focus, prev, fnIn, fnOut,
          disk, callers, partial, missing, removal, procs>>

(***************************************************************************)
(* Bounds                                                                  *)
(***************************************************************************)
MaxCases == 3      \* longest test case list of a call
MaxOut == 4        \* longest stdout text (SpecNorm)
MaxExp == 3        \* longest expected output text (SpecNorm)
MaxTotal == 40     \* largest number of results scored (SpecScore)
MaxCallers == 3    \* concurrent calls on one key (SpecRace)
MaxRuns == 3       \* runCommand invocations of one call (SpecRun)
MaxText == 2       \* longest stdout and expected output text (SpecClassify)
MaxTests == 201    \* largest number of results scored at the ends of the scale (SpecEnds)

(***************************************************************************)
(* Program constants                                                       *)
(***************************************************************************)
TIME_LIMIT_MS == 1500
COMPILE_LIMIT_MS == 15000

(***************************************************************************)
(* Texts are sequences of characters.                                      *)
(***************************************************************************)
WhiteSpace == {" ", "\r", "\n"}
Chars == {"3", " ", "\r", "\n"}

RECURSIVE TextsOfLen(_)
TextsOfLen(n) ==
  IF n = 0 THEN {<<>>}
  ELSE {<<c>> \o t : c \in Chars, t \in TextsOfLen(n - 1)}

TextsUpTo(n) == UNION {TextsOfLen(k) : k \in 0..n}

\* text.replace(/\r\n/g, '\n')
RECURSIVE ReplaceCRLF(_)
ReplaceCRLF(text) ==
  IF Len(text) = 0 THEN <<>>
  ELSE IF Len(text) >= 2 /\ text[1] = "\r" /\ text[2] = "\n"
       THEN <<"\n">> \o ReplaceCRLF(SubSeq(text, 3, Len(text)))
       ELSE <<text[1]>> \o ReplaceCRLF(Tail(text))

RECURSIVE TrimStart(_)
TrimStart(text) ==
  IF Len(text) > 0 /\ text[1] \in WhiteSpace THEN TrimStart(Tail(text)) ELSE text

RECURSIVE TrimEnd(_)
TrimEnd(text) ==
  IF Len(text) > 0 /\ text[Len(text)] \in WhiteSpace
  THEN TrimEnd(SubSeq(text, 1, Len(text) - 1))
  ELSE text

\* a normalizeOutput without the trim call
TrimNothing(text) == text

\* String.prototype.trim: whitespace is removed from both ends
Trim(text) == TrimEnd(TrimStart(text))

normalizeOutput(text) == Trim(ReplaceCRLF(text))

\* a priority table with Runtime Error above Time Limit Exceeded
statusPrioritySwapped(status) ==
  IF status = "Accepted" THEN 0
  ELSE IF status = "Wrong Answer" THEN 1
  ELSE IF status = "Runtime Error" THEN 3
  ELSE IF status = "Time Limit Exceeded" THEN 2
  ELSE 4

statusPriority(status) ==
  IF status = "Accepted" THEN 0
  ELSE IF status = "Wrong Answer" THEN 1
  ELSE IF status = "Runtime Error" THEN 2
  ELSE IF status = "Time Limit Exceeded" THEN 3
  ELSE 4

\* a classification that looks at the exit code before the timeout
caseStatusExitFirst(exec, expected) ==
  IF exec.code # 0 THEN "Runtime Error"
  ELSE IF exec.timedOut THEN "Time Limit Exceeded"
  ELSE IF normalizeOutput(exec.stdout) # expected THEN "Wrong Answer"
  ELSE "Accepted"

\* judgeSubmission, classification of one execution outcome against the
\* normalized expected output
caseStatus(exec, expected) ==
  IF exec.timedOut THEN "Time Limit Exceeded"
  ELSE IF exec.code # 0 THEN "Runtime Error"
  ELSE IF normalizeOutput(exec.stdout) # expected THEN "Wrong Answer"
  ELSE "Accepted"

(***************************************************************************)
(* IEEE-754 double arithmetic, as far as the score computation uses it.    *)
(* A natural number is the sequence of its base-65536 digits, least        *)
(* significant first, without leading zeros.  A positive double is [m, e]: *)
(* m is its 53-bit significand as such a number and its value is m * 2^e;  *)
(* zero has m = <<>>.                                                      *)
(***************************************************************************)
MantissaBits == 53
DigitBits == 16
Base == 65536

Reverse(s) == [i \in 1..Len(s) |-> s[Len(s) + 1 - i]]

RECURSIVE Pow2(_)
Pow2(n) == IF n = 0 THEN 1 ELSE 2 * Pow2(n - 1)

RECURSIVE BitLen(_)
BitLen(n) == IF n = 0 THEN 0 ELSE 1 + BitLen(n \div 2)

BitLength(x) ==
  IF Len(x) = 0 THEN 0 ELSE DigitBits * (Len(x) - 1) + BitLen(x[Len(x)])

RECURSIVE Strip(_)
Strip(x) ==
  IF Len(x) > 0 /\ x[Len(x)] = 0 THEN Strip(SubSeq(x, 1, Len(x) - 1)) ELSE x

RECURSIVE ToNat(_)
ToNat(x) == IF Len(x) = 0 THEN 0 ELSE x[1] + Base * ToNat(Tail(x))

\* x * n + carry for naturals n, carry < 32768
RECURSIVE MulNat(_, _, _)
MulNat(x, n, carry) ==
  IF Len(x) = 0 THEN (IF carry = 0 THEN <<>> ELSE <<carry>>)
  ELSE LET v == x[1] * n + carry
       IN <<v % Base>> \o MulNat(Tail(x), n, v \div Base)

RECURSIVE Increment(_)
Increment(x) ==
  IF Len(x) = 0 THEN <<1>>
  ELSE IF x[1] + 1 < Base THEN <<x[1] + 1>> \o Tail(x)
  ELSE <<0>> \o Increment(Tail(x))

\* floor(x / 2^k)
ShiftRight(x, k) ==
  LET y == SubSeq(x, (k \div DigitBits) + 1, Len(x))
      s == k % DigitBits
  IN Strip([i \in 1..Len(y) |->
              (y[i] \div Pow2(s))
              + (IF i < Len(y) THEN (y[i + 1] % Pow2(s)) * Pow2(DigitBits - s) ELSE 0)])

\* the double nearest to (x + f) * 2^e, ties to even, for x of at least 53 and
\* at most 68 bits and a fraction 0 <= f < 1 that is non-zero iff sticky
RoundToDouble(x, e, sticky) ==
  LET d == BitLength(x) - MantissaBits
      kept == ShiftRight(x, d)
      low == IF d = 0 THEN 0 ELSE x[1] % Pow2(d)
      half == IF d = 0 THEN 0 ELSE Pow2(d - 1)
      above == IF d = 0 THEN FALSE ELSE low > half \/ (low = half /\ sticky)
      tie == d > 0 /\ low = half /\ ~sticky
      up == above \/ (tie /\ kept[1] % 2 = 1)
      inc == Increment(kept)
  IN IF ~up THEN [m |-> kept, e |-> e + d]
     ELSE IF BitLength(inc) > MantissaBits
          THEN [m |-> ShiftRight(inc, 1), e |-> e + d + 1]
          ELSE [m |-> inc, e |-> e + d]

\* n base-65536 digits of r / t after the point (0 <= r < t < 32768), and the remainder
RECURSIVE Divide(_, _, _)
Divide(r, t, n) ==
  IF n = 0 THEN [digits |-> <<>>, rem |-> r]
  ELSE LET rest == Divide((r * Base) % t, t, n - 1)
       IN [digits |-> <<(r * Base) \div t>> \o rest.digits, rem |-> rest.rem]

\* least z with p * 2^z >= t
RECURSIVE Normalize(_, _)
Normalize(p, t) == IF p >= t THEN 0 ELSE 1 + Normalize(2 * p, t)

\* the double p / t for naturals 0 <= p <= t, 0 < t
FDiv(p, t) ==
  IF p = 0 THEN [m |-> <<>>, e |-> 0]
  ELSE LET z == Normalize(p, t)
           q == Divide(p * Pow2(z) - t, t, 4)
       IN RoundToDouble(Reverse(<<1>> \o q.digits), 0 - z - 4 * DigitBits, q.rem # 0)

\* the double x * n for a natural 0 < n < 32768
FMul(x, n) ==
  IF Len(x.m) = 0 THEN [m |-> <<>>, e |-> 0]
  ELSE RoundToDouble(MulNat(x.m, n, 0), x.e, FALSE)

\* Math.round of a double below 2^31: nearest integer, ties towards +Infinity
MathRound(x) ==
  IF Len(x.m) = 0 THEN 0
  ELSE IF x.e >= 0 THEN ToNat(x.m) * Pow2(x.e)
  ELSE LET k == 0 - x.e
           halfBit == IF k - 1 >= BitLength(x.m) THEN 0
                      ELSE ShiftRight(x.m, k - 1)[1] % 2
       IN ToNat(ShiftRight(x.m, k)) + halfBit

\* exact rounding of 100 * p / t to the nearest integer, ties towards +Infinity
ExactRound(p, t) == (200 * p + t) \div (2 * t)

\* a score that rounds down
scoreFloor(passedTests, totalTests) ==
  IF totalTests > 0 THEN (100 * passedTests) \div totalTests ELSE 0

\* const score = totalTests > 0 ? Math.round((passedTests / totalTests) * 100) : 0
score(passedTests, totalTests) ==
  IF totalTests > 0 THEN MathRound(FMul(FDiv(passedTests, totalTests), 100)) ELSE 0


(***************************************************************************)
(* The submissions, programs and test cases the calls are drawn from.      *)
(***************************************************************************)
Supported == {"C++", "Python", "Java"}

\* "ok" compiles and runs (one artifact for C++); "multi" is a Java source with
\* a second class that Main uses; "bad" does not compile; on "loop" the compiler
\* does not finish; Rust is a language the engine does not support
Submissions ==
  {<<"C++", "ok">>, <<"C++", "bad">>, <<"C++", "loop">>,
   <<"Java", "multi">>, <<"Python", "ok">>, <<"Rust", "ok">>}

Inputs == {"a", "b", "c", "d"}

\* what a child process does when left alone
Exit(exitCode, out, files) ==
  [kind |-> "exit", code |-> exitCode, stdout |-> out, writes |-> files, ms |-> 10,
   stderr |-> IF exitCode = 0 THEN "" ELSE "diagnostics"]

Hang ==
  [kind |-> "hang", code |-> 0, stdout |-> <<>>, writes |-> {}, ms |-> 0, stderr |-> ""]

\* the process cannot be started: the child emits 'error'
SpawnFails ==
  [kind |-> "fail", code |-> 0, stdout |-> <<>>, writes |-> {}, ms |-> 0, stderr |-> ""]

\* the submitted program: prints 3 on "a", 33 on "b", fails on "c", loops on "d"
ProgramOn(input) ==
  CASE input = "a" -> Exit(0, <<"3", "\n">>, {})
    [] input = "b" -> Exit(0, <<"3", "3">>, {})
    [] input = "c" -> Exit(1, <<>>, {})
    [] input = "d" -> Hang

TestCases ==
  {[input |-> "a", output |-> <<"3", "\r", "\n">>],
   [input |-> "b", output |-> <<"3">>],
   [input |-> "c", output |-> <<"3">>],
   [input |-> "d", output |-> <<"3">>]}

RECURSIVE SeqsOfLen(_, _)
SeqsOfLen(S, n) ==
  IF n = 0 THEN {<<>>}
  ELSE {<<x>> \o t : x \in S, t \in SeqsOfLen(S, n - 1)}

SeqsUpTo(S, n) == UNION {SeqsOfLen(S, k) : k \in 0..n}

TcLists == SeqsUpTo(TestCases, MaxCases)

InputLists == SeqsUpTo(Inputs, MaxCases)

\* files the compiler leaves in the workspace
Artifacts(lang, src) ==
  IF lang = "C++" THEN {"main.exe"}
  ELSE IF src = "multi" THEN {"Main.class", "Helper.class"}
  ELSE {"Main.class"}

\* what the compiler process does on a source
CompilerOn(lang, src) ==
  IF src = "bad" THEN Exit(1, <<>>, {})
  ELSE IF src = "loop" THEN Hang
  ELSE Exit(0, <<>>, Artifacts(lang, src))

\* what the program process can do, started in a workspace holding files:
\* the JVM fails when a class that Main uses is not in the working directory;
\* on the empty input of the warm-up the program may do anything
ProgramRuns(lang, src, files, input) ==
  IF lang = "Java" /\ ~(Artifacts(lang, src) \subseteq files)
  THEN {Exit(1, <<>>, {})}
  ELSE IF input = "" THEN {Exit(0, <<>>, {}), Exit(1, <<>>, {}), Hang, SpawnFails}
  ELSE {ProgramOn(input)}

\* the commands the engine spawns by name
GPP_CMD == "g++"
JAVAC_CMD == "javac"
JAVA_CMD == "java"
PYTHON_CMD == "python"

\* compileSource: the compiler command of a compiled language
CompilerOf(lang) == IF lang = "C++" THEN GPP_CMD ELSE JAVAC_CMD

\* the command of a run: workspace.exec itself for C++, else the interpreter
\* or the JVM
RuntimeOf(lang) ==
  IF lang = "C++" THEN "main.exe" ELSE IF lang = "Python" THEN PYTHON_CMD ELSE JAVA_CMD

\* crypto.createHash('md5').update(`${language}:${code}`): one key per pair
getCodeHash(lang, src) == <<lang, src>>

(***************************************************************************)
(* runCommand: the child spawned, and the value the promise resolves with  *)
(***************************************************************************)
\* a runCommand that arms no timer
runCommandNoTimer(purpose, input, behaviour, timeout) ==
  [purpose |-> purpose, input |-> input, beh |-> behaviour, timer |-> FALSE,
   timeout |-> timeout]

\* spawn(cmd, args) and setTimeout(kill, options.timeout)
runCommand(purpose, input, behaviour, timeout) ==
  [purpose |-> purpose, input |-> input, beh |-> behaviour, timer |-> TRUE,
   timeout |-> timeout]

\* history entry of a scored run
Ran(c, exec) ==
  [input |-> c.input, timedOut |-> exec.timedOut, code |-> exec.code,
   stdout |-> exec.stdout, duration |-> exec.duration]

\* child.on('close')
OnClose(c) ==
  [stdout |-> c.beh.stdout, stderr |-> c.beh.stderr, code |-> c.beh.code,
   timedOut |-> FALSE, duration |-> c.beh.ms]

\* error.message of a failed spawn
ErrorMessage == "spawn ENOENT"

\* an 'error' handler that reports the failed spawn as a timeout
OnErrorTimedOut(c) ==
  [stdout |-> c.beh.stdout, stderr |-> ErrorMessage, code |-> -1,
   timedOut |-> TRUE, duration |-> c.beh.ms]

\* child.on('error')
OnError(c) ==
  [stdout |-> c.beh.stdout, stderr |-> ErrorMessage, code |-> -1,
   timedOut |-> FALSE, duration |-> c.beh.ms]

\* the setTimeout callback
OnTimeout(c) ==
  [stdout |-> c.beh.stdout, stderr |-> c.beh.stderr, code |-> -1,
   timedOut |-> TRUE, duration |-> c.timeout]

NoTrace ==
  [entry |-> FALSE, file |-> FALSE, copy |-> "none", compiler |-> "none", write |-> "none"]

NoSpawns == [compile |-> 0, warmup |-> 0, run |-> 0]

Count(purpose) == [spawned EXCEPT ![purpose] = @ + 1]

WaitPc(purpose) ==
  IF purpose = "compile" THEN "compiling"
  ELSE IF purpose = "warmup" THEN "warming" ELSE "running"

GotPc(purpose) ==
  IF purpose = "compile" THEN "compiled"
  ELSE IF purpose = "warmup" THEN "warmed" ELSE "ran"

(***************************************************************************)
(* The calls                                                               *)
(***************************************************************************)
argVars == <<op, language, code, testcases>>

fixedVars == <<focus, fnIn, fnOut, disk, callers, partial, missing, procs>>

Key == getCodeHash(language, code)

\* a lookup that keeps the stale entry
EvictNothing(cache, key) == cache

\* compileCache.delete(codeHash)
Evict(cache, key) == cache \ {key}

\* a set that also records an entry for a source that does not compile
RecordOther(cache, key) == cache \cup {key, getCodeHash("C++", "bad")}

\* compileCache.set(codeHash, cachedExec)
Record(cache, key) == cache \cup {key}

\* a finally block that also drops the compile cache
FinallyClearsCache(cache) == {}

\* the finally block of each public operation: rm -rf of the workspace, nothing else
Finally(cache) == cache

\* a return statement inside try, followed by the finally block: the removal
\* of the workspace is started and not awaited
Return(value) ==
  /\ ret' = <<value>>
  /\ pc' = "done"
  /\ wsRoot' = FALSE
  /\ wsFiles' = {}
  /\ removal' = "pending"
  /\ compileCache' = Finally(compileCache)

SourceFile(lang) ==
  IF lang = "C++" THEN "main.cpp" ELSE IF lang = "Python" THEN "main.py" ELSE "Main.java"

\* the file compileSource copies a cached artifact to
CachedTarget(lang) == IF lang = "Java" THEN "Main.class" ELSE "main.exe"

\* the result object for an unsupported language / a caught exception
JudgeError(o) ==
  IF o = "judge" THEN [status |-> "Judge Error", timeMs |-> 0, results |-> <<>>]
  ELSE IF o = "sample" THEN [status |-> "Judge Error", timeMs |-> 0, output |-> <<>>]
  ELSE [status |-> "Judge Error", results |-> <<>>]

\* the result object for a failed compile
CompileError(o, cr) ==
  IF o = "judge" THEN [status |-> cr.status, timeMs |-> cr.timeMs, results |-> <<>>]
  ELSE IF o = "sample" THEN [status |-> cr.status, timeMs |-> 0, output |-> <<>>]
  ELSE [status |-> cr.status, results |-> <<>>]

\* results lists with at most two entries Accepted or at most two not
Ends ==
  {pt \in UNION {{<<p, t>> : p \in {0, 1, 2, t - 2, t - 1, t}} : t \in 1..MaxTests} :
     pt[1] >= 0 /\ pt[1] <= pt[2]}

\* the scores of all the totals a call can reach, computed once
scoreTable ==
  LET most == IF MaxTotal > MaxCases THEN MaxTotal ELSE MaxCases
  IN {<<pt[1], pt[2], score(pt[1], pt[2])>> :
        pt \in {q \in (0..most) \X (0..most) : q[1] <= q[2]} \cup Ends}

scoreOf(passedTests, totalTests) ==
  (CHOOSE r \in scoreTable : r[1] = passedTests /\ r[2] = totalTests)[3]

\* the sum of timeMs over rs[lo..hi], by halves
RECURSIVE SumRange(_, _, _)
SumRange(rs, lo, hi) ==
  IF lo > hi THEN 0
  ELSE IF lo = hi THEN rs[lo].timeMs
  ELSE LET mid == (lo + hi) \div 2
       IN SumRange(rs, lo, mid) + SumRange(rs, mid + 1, hi)

\* results.reduce((sum, item) => sum + (item.timeMs ?? 0), 0)
SumTimes(rs) == SumRange(rs, 1, Len(rs))

\* judgeSubmission: totals, score and the verdict object
Verdict(overall, rs) ==
  LET totalTests == Len(rs)
      passedTests == Cardinality({i \in DOMAIN rs : rs[i].status = "Accepted"})
  IN [status |-> overall, timeMs |-> SumTimes(rs), results |-> rs,
      score |-> scoreOf(passedTests, totalTests)]

\* history: what the finished call saw and returned
Summary ==
  [trace |-> trace, compiles |-> spawned.compile, status |-> ret[1].status,
   statuses |-> [i \in DOMAIN ret[1].results |-> ret[1].results[i].status],
   score |-> IF "score" \in DOMAIN ret[1] THEN ret[1].score ELSE -1]

\* every operation warms up after the compile step
AfterCompilePcWarmsAll == "warmup"

\* where the operation continues after compileSource returned ok: the warm-up
\* of judgeSubmission and runSample, the input loop of runSamples
AfterCompilePc == IF op = "samples" THEN "loop" ELSE "warmup"

\* a caller invokes a public operation
StartCall(o, l, c, t) ==
  /\ pc = "idle"
  /\ op' = o /\ language' = l /\ code' = c /\ testcases' = t
  /\ pc' = "prepare"
  /\ overallStatus' = IF o = "samples" THEN "OK" ELSE "Accepted"
  /\ UNCHANGED <<compileCache, cacheFiles, wsRoot, wsFiles, compileResult, child,
                 execResult, results, ret, trace, spawned, killed, runs, prev, removal, fixedVars>>

\* the caller has received the returned value or the rejection; the call's
\* locals are gone
Returned ==
  /\ pc \in {"done", "thrown"}
  /\ pc' = "idle"
  /\ op' = "none" /\ language' = "none" /\ code' = "none" /\ testcases' = <<>>
  /\ compileResult' = <<>> /\ results' = <<>> /\ overallStatus' = "none"
  /\ ret' = <<>>
  /\ trace' = NoTrace /\ spawned' = NoSpawns /\ killed' = NoSpawns /\ runs' = <<>>
  /\ prev' = IF focus = <<>> THEN prev ELSE <<Summary>>
  /\ wsRoot' = FALSE /\ wsFiles' = {}
  /\ removal' = "none"
  /\ UNCHANGED <<compileCache, cacheFiles, child, execResult, fixedVars>>

judgeSubmission ==
  /\ pc = "idle" /\ focus = <<>>
  /\ \E sub \in Submissions, t \in {<<>>} \cup {<<l>> : l \in TcLists} :
       StartCall("judge", sub[1], sub[2], t)

runSample ==
  /\ pc = "idle" /\ focus = <<>>
  /\ \E sub \in Submissions, i \in Inputs :
       StartCall("sample", sub[1], sub[2], <<<<i>>>>)

runSamples ==
  /\ pc = "idle" /\ focus = <<>>
  /\ \E sub \in Submissions, t \in InputLists :
       StartCall("samples", sub[1], sub[2], <<t>>)

\* what can happen to the filesystem calls of prepareWorkspace: all succeed,
\* mkdir or mkdtemp fails, or writeFile of the source fails
PrepareOutcomes(lang) ==
  IF disk = "ok" THEN {"ok"}
  ELSE IF lang \in Supported THEN {"ok", "mkdir", "write"} ELSE {"ok", "mkdir"}

\* prepareWorkspace, awaited before the try block: the directory is made for
\* every language, the source file is written for a supported one; a failure
\* rejects the promise of the public operation
prepareWorkspace ==
  /\ pc = "prepare"
  /\ \E outcome \in PrepareOutcomes(language) :
       /\ wsRoot' = (outcome # "mkdir")
       /\ wsFiles' = IF outcome = "ok" /\ language \in Supported
                     THEN {SourceFile(language)} ELSE {}
       /\ pc' = IF outcome # "ok" THEN "thrown"
                ELSE IF language \in Supported THEN "compile" ELSE "unsupported"
  /\ UNCHANGED <<compileCache, cacheFiles, argVars, compileResult, child, execResult, results,
                 overallStatus, ret, trace, spawned, killed, runs, prev, removal, fixedVars>>

\* if (!workspace.exec || !workspace.source) return result
rejectLanguage ==
  /\ pc = "unsupported"
  /\ Return(JudgeError(op))
  /\ UNCHANGED <<cacheFiles, argVars, compileResult, child, execResult, results,
                 overallStatus, trace, spawned, killed, runs, prev, fixedVars>>

\* compileSource from the language branches on: spawn the compiler, or nothing for Python
StartCompiler ==
  IF language \in {"C++", "Java"}
  THEN /\ child' = <<runCommand("compile", "",
                                 IF CompilerOf(language) \in missing THEN SpawnFails
                                 ELSE CompilerOn(language, code),
                                 COMPILE_LIMIT_MS)>>
       /\ spawned' = Count("compile")
       /\ pc' = "compiling"
       /\ UNCHANGED compileResult
  ELSE /\ compileResult' = <<[ok |-> TRUE, cached |-> FALSE]>>
       /\ pc' = AfterCompilePc
       /\ UNCHANGED <<child, spawned>>

\* compileSource: compileCache.has and fs.existsSync
compileSourceLookup ==
  /\ pc = "compile"
  /\ trace' = [trace EXCEPT !.entry = Key \in compileCache, !.file = Key \in cacheFiles]
  /\ IF Key \in compileCache /\ Key \in cacheFiles
     THEN /\ pc' = "cachecopy"
          /\ UNCHANGED <<compileCache, child, spawned, compileResult>>
     ELSE /\ compileCache' = Evict(compileCache, Key)
          /\ StartCompiler
  /\ UNCHANGED <<cacheFiles, argVars, wsRoot, wsFiles, execResult, results,
                 overallStatus, ret, killed, runs, prev, removal, fixedVars>>

\* compileSource: copyFile of the cached artifact into the workspace, and its catch
compileSourceCopy ==
  /\ pc = "cachecopy"
  /\ \E copied \in BOOLEAN :
       /\ copied => Key \in cacheFiles
       /\ IF copied
          THEN /\ wsFiles' = wsFiles \cup {CachedTarget(language)}
               /\ compileResult' = <<[ok |-> TRUE, cached |-> TRUE]>>
               /\ pc' = AfterCompilePc
               /\ trace' = [trace EXCEPT !.copy = "ok"]
               /\ UNCHANGED <<compileCache, child, spawned>>
          ELSE /\ trace' = [trace EXCEPT !.copy = IF Key \in cacheFiles THEN "error" ELSE "gone"]
               /\ compileCache' = Evict(compileCache, Key)
               /\ UNCHANGED wsFiles
               /\ StartCompiler
  /\ UNCHANGED <<cacheFiles, argVars, wsRoot, execResult, results,
                 overallStatus, ret, killed, runs, prev, removal, fixedVars>>

\* runCommand: the child exits and 'close' is delivered before the timer fires
ChildClose ==
  /\ child # <<>>
  /\ child[1].beh.kind = "exit"
  /\ execResult' = <<OnClose(child[1])>>
  /\ wsFiles' = wsFiles \cup child[1].beh.writes
  /\ pc' = GotPc(child[1].purpose)
  /\ runs' = IF child[1].purpose = "run" THEN Append(runs, Ran(child[1], execResult'[1])) ELSE runs
  /\ child' = <<>>
  /\ UNCHANGED <<compileCache, cacheFiles, argVars, wsRoot, compileResult, results,
                 overallStatus, ret, trace, spawned, killed, prev, removal, fixedVars>>

\* runCommand: the child could not be spawned and 'error' is delivered
ChildError ==
  /\ child # <<>>
  /\ child[1].beh.kind = "fail"
  /\ execResult' = <<OnError(child[1])>>
  /\ pc' = GotPc(child[1].purpose)
  /\ runs' = IF child[1].purpose = "run" THEN Append(runs, Ran(child[1], execResult'[1])) ELSE runs
  /\ child' = <<>>
  /\ UNCHANGED <<compileCache, cacheFiles, argVars, wsRoot, wsFiles, compileResult, results,
                 overallStatus, ret, trace, spawned, killed, prev, removal, fixedVars>>

\* runCommand: the timer fires first, the child is killed
TimerFire ==
  /\ child # <<>>
  /\ child[1].timer
  /\ child[1].beh.kind = "hang"
  /\ execResult' = <<OnTimeout(child[1])>>
  /\ pc' = GotPc(child[1].purpose)
  /\ killed' = [killed EXCEPT ![child[1].purpose] = @ + 1]
  /\ runs' = IF child[1].purpose = "run" THEN Append(runs, Ran(child[1], execResult'[1])) ELSE runs
  /\ child' = <<>>
  /\ UNCHANGED <<compileCache, cacheFiles, argVars, wsRoot, wsFiles, compileResult, results,
                 overallStatus, ret, trace, spawned, prev, removal, fixedVars>>

\* a compileSource that looks at the timeout only
CompileFailedOnTimeoutOnly(exec) == exec.timedOut

\* compileSource: whether the compiler's outcome is a compile error
CompileFailed(exec) == exec.timedOut \/ exec.code # 0

\* compileSource: the compiler's outcome
compileSourceResult ==
  /\ pc = "compiled"
  /\ trace' = [trace EXCEPT !.compiler = IF execResult[1].timedOut THEN "timeout"
                                         ELSE IF execResult[1].code # 0 THEN "error"
                                         ELSE "ok"]
  /\ IF CompileFailed(execResult[1])
     THEN /\ compileResult' = <<[ok |-> FALSE, status |-> "Compile Error",
                                 timeMs |-> execResult[1].duration]>>
          /\ Return(CompileError(op, compileResult'[1]))
     ELSE /\ pc' = "cachewrite"
          /\ UNCHANGED <<compileResult, ret, wsRoot, wsFiles, compileCache, removal>>
  /\ execResult' = <<>>
  /\ UNCHANGED <<cacheFiles, argVars, child, results, overallStatus,
                 spawned, killed, runs, prev, fixedVars>>

\* a save whose failure is not swallowed and reaches the catch of the operation
compileSourceSaveThrows ==
  /\ pc = "cachewrite"
  /\ \E saved \in BOOLEAN :
       IF saved
       THEN /\ cacheFiles' = cacheFiles \cup {Key}
            /\ compileCache' = Record(compileCache, Key)
            /\ trace' = [trace EXCEPT !.write = "ok"]
            /\ compileResult' = <<[ok |-> TRUE, cached |-> FALSE]>>
            /\ pc' = AfterCompilePc
            /\ UNCHANGED <<ret, wsRoot, wsFiles, removal>>
       ELSE /\ trace' = [trace EXCEPT !.write = "failed"]
            /\ Return(JudgeError(op))
            /\ UNCHANGED <<cacheFiles, compileResult>>
  /\ UNCHANGED <<argVars, child, execResult, results, overallStatus,
                 spawned, killed, runs, prev, fixedVars>>

\* compileSource: mkdir CACHE_ROOT, copyFile into it, compileCache.set; failures swallowed
compileSourceSave ==
  /\ pc = "cachewrite"
  /\ \E saved \in BOOLEAN :
       IF saved
       THEN /\ cacheFiles' = cacheFiles \cup {Key}
            /\ compileCache' = Record(compileCache, Key)
            /\ trace' = [trace EXCEPT !.write = "ok"]
       ELSE /\ trace' = [trace EXCEPT !.write = "failed"]
            /\ UNCHANGED <<cacheFiles, compileCache>>
  /\ compileResult' = <<[ok |-> TRUE, cached |-> FALSE]>>
  /\ pc' = AfterCompilePc
  /\ UNCHANGED <<argVars, wsRoot, wsFiles, child, execResult, results, overallStatus,
                 ret, spawned, killed, runs, prev, removal, fixedVars>>

\* a location outside the workspace: the cache directory
ExecPathInCache(lang) ==
  [cwd |-> "cache", dir |-> "cache",
   file |-> IF lang = "C++" THEN "main.exe" ELSE IF lang = "Python" THEN "main.py"
            ELSE "Main.class"]

\* what a run executes: workspace.exec for C++, the interpreter on workspace.exec
\* for Python, class Main looked up in the working directory for Java; cwd is
\* workspace.root
ExecPath(lang) ==
  [cwd |-> "workspace", dir |-> "workspace",
   file |-> IF lang = "C++" THEN "main.exe" ELSE IF lang = "Python" THEN "main.py"
            ELSE "Main.class"]

\* a run of the program on one input
SpawnRun(purpose, input) ==
  \E b \in (IF RuntimeOf(language) \in missing THEN {SpawnFails}
            ELSE ProgramRuns(language, code, wsFiles, input)) :
    /\ child' = <<runCommand(purpose, input, b, TIME_LIMIT_MS) @@ ExecPath(language)>>
    /\ spawned' = Count(purpose)
    /\ pc' = WaitPc(purpose)

\* judgeSubmission, runSample: the warm-up run with empty input
WarmUp ==
  /\ pc = "warmup"
  /\ SpawnRun("warmup", "")
  /\ UNCHANGED <<compileCache, cacheFiles, argVars, wsRoot, wsFiles, compileResult,
                 execResult, results, overallStatus, ret, trace, killed, runs, prev, removal, fixedVars>>

\* a warm-up whose timeout counts against the submission
WarmUpCounted ==
  /\ pc = "warmed"
  /\ overallStatus' = IF execResult[1].timedOut THEN "Time Limit Exceeded" ELSE overallStatus
  /\ execResult' = <<>>
  /\ pc' = "loop"
  /\ UNCHANGED <<compileCache, cacheFiles, argVars, wsRoot, wsFiles, compileResult,
                 child, results, ret, trace, spawned, killed, runs, prev, removal, fixedVars>>

\* the warm-up outcome is discarded
WarmUpDone ==
  /\ pc = "warmed"
  /\ execResult' = <<>>
  /\ pc' = "loop"
  /\ UNCHANGED <<compileCache, cacheFiles, argVars, wsRoot, wsFiles, compileResult,
                 child, results, overallStatus, ret, trace, spawned, killed, runs, prev, removal, fixedVars>>

\* a loop that stops after the first case that is not Accepted
MoreCasesFailFast(rs, tcs) ==
  Len(rs) < Len(tcs) /\ \A i \in DOMAIN rs : rs[i].status = "Accepted"

\* judgeSubmission: the loop condition
MoreCases(rs, tcs) == Len(rs) < Len(tcs)

\* judgeSubmission: testcases.map, the loop head, and the aggregation after the loop
judgeLoop ==
  /\ pc = "loop" /\ op = "judge"
  /\ IF testcases = <<>>
     THEN Return(JudgeError(op)) /\ UNCHANGED <<child, spawned>>
     ELSE IF MoreCases(results, testcases[1])
     THEN /\ SpawnRun("run", testcases[1][Len(results) + 1].input)
          /\ UNCHANGED <<ret, wsRoot, wsFiles, compileCache, removal>>
     ELSE Return(Verdict(overallStatus, results)) /\ UNCHANGED <<child, spawned>>
  /\ UNCHANGED <<cacheFiles, argVars, compileResult, execResult, results, overallStatus,
                 trace, killed, runs, prev, fixedVars>>

\* judgeSubmission: classify the case, update overallStatus, push the result
judgeCase ==
  /\ pc = "ran" /\ op = "judge"
  /\ LET tc == testcases[1][Len(results) + 1]
         st == caseStatus(execResult[1], normalizeOutput(tc.output))
     IN /\ overallStatus' = IF statusPriority(st) > statusPriority(overallStatus)
                            THEN st ELSE overallStatus
        /\ results' = Append(results, [index |-> Len(results), status |-> st,
                                       timeMs |-> execResult[1].duration])
  /\ execResult' = <<>>
  /\ pc' = "loop"
  /\ UNCHANGED <<compileCache, cacheFiles, argVars, wsRoot, wsFiles, compileResult,
                 child, ret, trace, spawned, killed, runs, prev, removal, fixedVars>>

\* the result entry of runSample and runSamples for one execution outcome
sampleResult(exec) ==
  [status |-> IF exec.timedOut THEN "Time Limit Exceeded"
              ELSE IF exec.code # 0 THEN "Runtime Error" ELSE "OK",
   timeMs |-> exec.duration, output |-> exec.stdout]

\* runSample: the single run
sampleRun ==
  /\ pc = "loop" /\ op = "sample"
  /\ SpawnRun("run", testcases[1][1])
  /\ UNCHANGED <<compileCache, cacheFiles, argVars, wsRoot, wsFiles, compileResult,
                 execResult, results, overallStatus, ret, trace, killed, runs, prev, removal, fixedVars>>

sampleDone ==
  /\ pc = "ran" /\ op = "sample"
  /\ Return(sampleResult(execResult[1]))
  /\ execResult' = <<>>
  /\ UNCHANGED <<cacheFiles, argVars, compileResult, child, results, overallStatus,
                 trace, spawned, killed, runs, prev, fixedVars>>

\* runSamples: the loop head and the return after the loop
samplesLoop ==
  /\ pc = "loop" /\ op = "samples"
  /\ IF Len(results) < Len(testcases[1])
     THEN /\ SpawnRun("run", testcases[1][Len(results) + 1])
          /\ UNCHANGED <<ret, wsRoot, wsFiles, compileCache, removal>>
     ELSE /\ Return([status |-> overallStatus, results |-> results])
          /\ UNCHANGED <<child, spawned>>
  /\ UNCHANGED <<cacheFiles, argVars, compileResult, execResult, results, overallStatus,
                 trace, killed, runs, prev, fixedVars>>

\* a runSamples that never breaks
BreakNever(entry) == FALSE

\* whether runSamples leaves the loop after this entry
Break(entry) == entry.status # "OK"

\* runSamples: push the entry; break and return on the first that is not OK
samplesCase ==
  /\ pc = "ran" /\ op = "samples"
  /\ LET entry == sampleResult(execResult[1])
     IN /\ results' = Append(results, entry)
        /\ IF Break(entry)
           THEN /\ overallStatus' = entry.status
                /\ Return([status |-> entry.status, results |-> results'])
           ELSE /\ pc' = "loop"
                /\ UNCHANGED <<overallStatus, ret, wsRoot, wsFiles, compileCache, removal>>
  /\ execResult' = <<>>
  /\ UNCHANGED <<cacheFiles, argVars, compileResult, child, trace, spawned,
                 killed, runs, prev, fixedVars>>

\* the environment removes an artifact file from the cache directory: between
\* two calls, or while a call waits for the copy of the file it found (a removal
\* at any other moment of a call shows to the program as one of these)
DeleteCacheFile ==
  /\ pc \in {"idle", "cachecopy"}
  /\ \E k \in cacheFiles : cacheFiles' = cacheFiles \ {k}
  /\ UNCHANGED <<compileCache, argVars, pc, wsRoot, wsFiles, compileResult, child,
                 execResult, results, overallStatus, ret, trace, spawned, killed, runs,
                 prev, removal, fixedVars>>

\* a removal whose failure replaces the returned value by a Judge Error
rmSurfaces ==
  /\ pc = "done" /\ removal = "pending"
  /\ \E failed \in BOOLEAN :
       /\ removal' = IF failed THEN "failed" ELSE "done"
       /\ ret' = IF failed THEN <<JudgeError(op)>> ELSE ret
  /\ UNCHANGED <<compileCache, cacheFiles, argVars, pc, wsRoot, wsFiles, compileResult, child,
                 execResult, results, overallStatus, trace, spawned, killed, runs,
                 prev, fixedVars>>

\* fs.promises.rm of the workspace settles while the caller holds the returned
\* value: it resolves, or it rejects and .catch(() => undefined) drops the error
rmSettles ==
  /\ pc = "done" /\ removal = "pending"
  /\ removal' \in {"done", "failed"}
  /\ UNCHANGED <<compileCache, cacheFiles, argVars, pc, wsRoot, wsFiles, compileResult, child,
                 execResult, results, overallStatus, ret, trace, spawned, killed, runs,
                 prev, fixedVars>>

Idle ==
  /\ compileCache = {} /\ cacheFiles = {}
  /\ op = "none" /\ language = "none" /\ code = "none" /\ testcases = <<>>
  /\ pc = "idle"
  /\ wsRoot = FALSE /\ wsFiles = {}
  /\ compileResult = <<>> /\ child = <<>> /\ execResult = <<>>
  /\ results = <<>> /\ overallStatus = "none" /\ ret = <<>>
  /\ trace = NoTrace /\ spawned = NoSpawns /\ killed = NoSpawns /\ runs = <<>>
  /\ prev = <<>>
  /\ removal = "none"
  /\ procs = <<>>

\* nothing of the concurrent compileSource calls is in progress
NoRace == callers = <<>> /\ partial = {}

\* every command of the toolchain can be spawned
Installed == missing = {}

Init ==
  /\ Idle /\ NoRace /\ Installed
  /\ focus = <<>> /\ fnIn = <<>> /\ fnOut = <<>>
  /\ disk = "faulty"

Step ==
  \/ prepareWorkspace \/ rejectLanguage \/ compileSourceLookup \/ compileSourceCopy
  \/ ChildClose \/ ChildError \/ TimerFire
  \/ compileSourceResult \/ compileSourceSave
  \/ WarmUp \/ WarmUpDone
  \/ judgeLoop \/ judgeCase

Next ==
  \/ judgeSubmission \/ runSample \/ runSamples \/ Returned \/ rmSettles
  \/ Step
  \/ sampleRun \/ sampleDone \/ samplesLoop \/ samplesCase
  \/ DeleteCacheFile

Spec == Init /\ [][Next]_vars

(***************************************************************************)
(* The same submission judged again and again on one engine.               *)
(***************************************************************************)
Focuses ==
  {<<sub[1], sub[2], t>> : sub \in Submissions, t \in {<<>>} \cup {<<l>> : l \in TcLists}}

InitTwice ==
  /\ Idle /\ NoRace /\ Installed
  /\ focus \in Focuses /\ fnIn = <<>> /\ fnOut = <<>>
  /\ disk = "ok"

\* the caller judges the submission, for the first time or again
judgeAgain ==
  /\ pc = "idle" /\ focus # <<>>
  /\ StartCall("judge", focus[1], focus[2], focus[3])

NextTwice == judgeAgain \/ Returned \/ rmSettles \/ Step \/ DeleteCacheFile

SpecTwice == InitTwice /\ [][NextTwice]_vars

(***************************************************************************)
(* Calls on test cases whose runs either exit or never do, under the event *)
(* loop's scheduling: every continuation, close event and timer that is    *)
(* due is run.                                                             *)
(***************************************************************************)
HangCases == {tc \in TestCases : tc.input \in {"a", "d"}}

InitHang ==
  /\ Idle /\ NoRace /\ Installed
  /\ focus \in {<<sub[1], sub[2], <<l>>>> : sub \in Submissions,
                                           l \in SeqsUpTo(HangCases, MaxCases)}
  /\ fnIn = <<>> /\ fnOut = <<>>
  /\ disk = "ok"

SpecHang == InitHang /\ [][NextTwice]_vars /\ WF_vars(Step)

(***************************************************************************)
(* Hosts on which part of the toolchain is not installed: the spawn of a   *)
(* missing command fails and the child emits 'error'.                      *)
(***************************************************************************)
MissingSets ==
  {{GPP_CMD, JAVAC_CMD}, {JAVA_CMD}, {PYTHON_CMD}, {GPP_CMD, JAVAC_CMD, JAVA_CMD, PYTHON_CMD}}

InitTools ==
  /\ Idle /\ NoRace
  /\ focus \in {<<sub[1], sub[2], <<l>>>> : sub \in Submissions,
                                           l \in SeqsUpTo(HangCases, MaxCases)}
  /\ fnIn = <<>> /\ fnOut = <<>>
  /\ disk = "ok"
  /\ missing \in MissingSets

SpecTools == InitTools /\ [][NextTwice]_vars

(***************************************************************************)
(* The score of a results list with p Accepted entries out of t.           *)
(***************************************************************************)
ResultsOf(p, t) ==
  [i \in 1..t |-> [index |-> i - 1,
                   status |-> IF i <= p THEN "Accepted" ELSE "Wrong Answer",
                   timeMs |-> 10]]

InitScore ==
  /\ Idle /\ NoRace /\ Installed /\ disk = "ok"
  /\ focus = <<>> /\ fnOut = <<>>
  /\ fnIn \in {pt \in (0..MaxTotal) \X (0..MaxTotal) : pt[1] <= pt[2]}

\* judgeSubmission after the loop: totals, score and the returned object
judgeSubmissionScore ==
  /\ fnOut = <<>>
  /\ fnOut' = <<Verdict(IF fnIn[1] < fnIn[2] THEN "Wrong Answer" ELSE "Accepted",
                        ResultsOf(fnIn[1], fnIn[2]))>>
  /\ UNCHANGED <<compileCache, cacheFiles, argVars, pc, wsRoot, wsFiles, compileResult,
                 child, execResult, results, overallStatus, ret, trace, spawned, killed,
                 runs, focus, prev, fnIn, disk, callers, partial, missing, removal,
                 procs>>

SpecScore == InitScore /\ [][judgeSubmissionScore]_vars

\* long results lists that are Accepted almost everywhere or almost nowhere
InitEnds ==
  /\ Idle /\ NoRace /\ Installed /\ disk = "ok"
  /\ focus = <<>> /\ fnOut = <<>>
  /\ fnIn \in Ends

SpecEnds == InitEnds /\ [][judgeSubmissionScore]_vars

(***************************************************************************)
(* The comparison of one clean run's stdout with one expected output.      *)
(***************************************************************************)
InitNorm ==
  /\ Idle /\ NoRace /\ Installed /\ disk = "ok"
  /\ focus = <<>> /\ fnOut = <<>>
  /\ fnIn \in TextsUpTo(MaxOut) \X TextsUpTo(MaxExp)

\* judgeSubmission: expected = normalizeOutput(tc.output), then the classification
judgeSubmissionCompare ==
  /\ fnOut = <<>>
  /\ fnOut' = <<caseStatus([stdout |-> fnIn[1], code |-> 0, timedOut |-> FALSE,
                            duration |-> 10],
                           normalizeOutput(fnIn[2]))>>
  /\ UNCHANGED <<compileCache, cacheFiles, argVars, pc, wsRoot, wsFiles, compileResult,
                 child, execResult, results, overallStatus, ret, trace, spawned, killed,
                 runs, focus, prev, fnIn, disk, callers, partial, missing, removal,
                 procs>>

SpecNorm == InitNorm /\ [][judgeSubmissionCompare]_vars

(***************************************************************************)
(* The classification of one execution outcome, as runCommand can deliver  *)
(* it, against one expected output.                                        *)
(***************************************************************************)
\* the outcomes of runCommand: the timer resolves with code -1, 'error' with
\* code -1, 'close' with the exit code of the child
Outcomes ==
  {[timedOut |-> t, code |-> c, stdout |-> s, duration |-> 10] :
     t \in BOOLEAN, c \in {0, 1, -1}, s \in TextsUpTo(MaxText)}

InitClassify ==
  /\ Idle /\ NoRace /\ Installed /\ disk = "ok"
  /\ focus = <<>> /\ fnOut = <<>>
  /\ fnIn \in {e \in Outcomes : e.timedOut => e.code = -1} \X TextsUpTo(MaxText)

\* judgeSubmission: expected = normalizeOutput(tc.output), then caseStatus
judgeSubmissionClassify ==
  /\ fnOut = <<>>
  /\ fnOut' = <<caseStatus(fnIn[1], normalizeOutput(fnIn[2]))>>
  /\ UNCHANGED <<compileCache, cacheFiles, argVars, pc, wsRoot, wsFiles, compileResult,
                 child, execResult, results, overallStatus, ret, trace, spawned, killed,
                 runs, focus, prev, fnIn, disk, callers, partial, missing, removal, procs>>

SpecClassify == InitClassify /\ [][judgeSubmissionClassify]_vars

(***************************************************************************)
(* The toolchain locator, evaluated when the module is loaded.  A path is  *)
(* a string, an unset variable or a finder that found nothing is <<>>.     *)
(***************************************************************************)
\* a pickCommand that keeps looking and returns the last candidate that exists
pickCommandLast(fallback, candidates, exists) ==
  LET hits == {i \in DOMAIN candidates :
                 candidates[i] # <<>> /\ candidates[i][1] \in exists}
  IN IF hits = {} THEN fallback
     ELSE candidates[CHOOSE i \in hits : \A j \in hits : j <= i][1]

\* pickCommand(fallback, candidates) on a disk where the paths in exists
\* exist: the loop returns at the first candidate that is set and exists
pickCommand(fallback, candidates, exists) ==
  LET hits == {i \in DOMAIN candidates :
                 candidates[i] # <<>> /\ candidates[i][1] \in exists}
  IN IF hits = {} THEN fallback
     ELSE candidates[CHOOSE i \in hits : \A j \in hits : i <= j][1]

Tools == {GPP_CMD, JAVAC_CMD, JAVA_CMD, PYTHON_CMD}

\* process.env.GPP_PATH, JAVAC_PATH, JAVA_PATH, PYTHON_PATH
OverrideOf(tool) == <<"override", tool>>

\* path.join(process.env.MINGW_HOME, 'bin', 'g++.exe') and the like for JAVA_HOME
HomeOf(tool) == <<"home", tool>>

\* what findMsys2Gpp, findWinLibsGpp, findMicrosoftJdk and findPython lead to
WinOf(tool) ==
  IF tool = GPP_CMD THEN <<<<"msys2", tool>>, <<"winlibs", tool>>>>
  ELSE IF tool = PYTHON_CMD THEN <<<<"python", tool>>>>
  ELSE <<<<"jdk", tool>>>>

\* the paths a host can have for the tool
PathsOf(tool) ==
  {OverrideOf(tool)} \cup (IF tool = PYTHON_CMD THEN {} ELSE {HomeOf(tool)})
  \cup {WinOf(tool)[i] : i \in DOMAIN WinOf(tool)}

\* a host: which variables are set and which finders returned a path
Hosts(tool) ==
  [override : BOOLEAN, home : IF tool = PYTHON_CMD THEN {FALSE} ELSE BOOLEAN,
   found : SUBSET {WinOf(tool)[i] : i \in DOMAIN WinOf(tool)}]

Opt(present, path) == IF present THEN <<path>> ELSE <<>>

\* the candidates array of the tool
CandidatesOf(tool, host) ==
  <<Opt(host.override, OverrideOf(tool))>>
  \o (IF tool = PYTHON_CMD THEN <<>> ELSE <<Opt(host.home, HomeOf(tool))>>)
  \o [i \in DOMAIN WinOf(tool) |-> Opt(WinOf(tool)[i] \in host.found, WinOf(tool)[i])]

\* process.env.GPP_PATH || 'g++'
FallbackOf(tool, host) == IF host.override THEN OverrideOf(tool) ELSE <<"bare", tool>>

\* the executables the finders return were seen on disk by the finder; the
\* jdk finder returns a directory and does not look for the executable
InitPick ==
  /\ Idle /\ NoRace /\ Installed /\ disk = "ok"
  /\ focus = <<>> /\ fnOut = <<>>
  /\ fnIn \in UNION {{<<tool, host, exists>> :
                        host \in Hosts(tool), exists \in SUBSET PathsOf(tool)} : tool \in Tools}
  /\ \A p \in fnIn[2].found : (p[1] # "jdk") => p \in fnIn[3]

\* const GPP_CMD = pickCommand(process.env.GPP_PATH || 'g++', [...]) and the
\* same for JAVAC_CMD, JAVA_CMD and PYTHON_CMD
locateTool ==
  /\ fnOut = <<>>
  /\ fnOut' = <<pickCommand(FallbackOf(fnIn[1], fnIn[2]),
                            CandidatesOf(fnIn[1], fnIn[2]), fnIn[3])>>
  /\ UNCHANGED <<compileCache, cacheFiles, argVars, pc, wsRoot, wsFiles, compileResult,
                 child, execResult, results, overallStatus, ret, trace, spawned, killed,
                 runs, focus, prev, fnIn, disk, callers, partial, missing, removal, procs>>

SpecPick == InitPick /\ [][locateTool]_vars

(***************************************************************************)
(* Concurrent calls of compileSource with the same (language, code): the   *)
(* event loop interleaves them at every await.  fs.existsSync and the Map  *)
(* operations are synchronous; copyFile runs between two turns of the loop *)
(* and the destination file is incomplete until it resolves.               *)
(***************************************************************************)
RaceKey == getCodeHash("C++", "ok")

raceVars ==
  <<op, language, code, testcases, pc, wsRoot, wsFiles, compileResult, child, execResult,
    results, overallStatus, ret, trace, spawned, killed, runs, focus, prev, fnIn, fnOut, disk,
    missing, removal, procs>>

InitRace ==
  /\ Idle /\ Installed
  /\ focus = <<>> /\ fnIn = <<>> /\ fnOut = <<>> /\ disk = "ok"
  /\ callers = [c \in 1..MaxCallers |-> [at |-> "lookup", got |-> "none"]]
  /\ partial = {}

\* compileCache.has, fs.existsSync, and the start of copyFile or of the compiler
raceLookup(c) ==
  /\ callers[c].at = "lookup"
  /\ IF RaceKey \in compileCache /\ RaceKey \in cacheFiles
     THEN /\ callers' = [callers EXCEPT ![c].at = "copying"]
          /\ UNCHANGED compileCache
     ELSE /\ callers' = [callers EXCEPT ![c].at = "compiling"]
          /\ compileCache' = Evict(compileCache, RaceKey)
  /\ UNCHANGED <<cacheFiles, partial, raceVars>>

\* copyFile(cachedFile, workspace.exec) reads the cache file as it is, then
\* return { ok: true, cached: true }
raceCopy(c) ==
  /\ callers[c].at = "copying"
  /\ callers' = [callers EXCEPT ![c].at = "done",
                                ![c].got = IF partial = {} THEN "complete" ELSE "partial"]
  /\ UNCHANGED <<compileCache, cacheFiles, partial, raceVars>>

\* the compiler exits with code 0
raceCompiled(c) ==
  /\ callers[c].at = "compiling"
  /\ callers' = [callers EXCEPT ![c].at = "compiled"]
  /\ UNCHANGED <<compileCache, cacheFiles, partial, raceVars>>

\* copyFile(workspace.exec, cachedExec) opens and truncates the cache file
raceSaveBegin(c) ==
  /\ callers[c].at = "compiled"
  /\ callers' = [callers EXCEPT ![c].at = "saving"]
  /\ cacheFiles' = cacheFiles \cup {RaceKey}
  /\ partial' = partial \cup {c}
  /\ UNCHANGED <<compileCache, raceVars>>

\* copyFile resolves, compileCache.set, return { ok: true, cached: false }
raceSaveEnd(c) ==
  /\ callers[c].at = "saving"
  /\ callers' = [callers EXCEPT ![c].at = "done", ![c].got = "built"]
  /\ partial' = partial \ {c}
  /\ compileCache' = Record(compileCache, RaceKey)
  /\ UNCHANGED <<cacheFiles, raceVars>>

NextRace ==
  \/ \E c \in DOMAIN callers : raceLookup(c)
  \/ \E c \in DOMAIN callers : raceCopy(c)
  \/ \E c \in DOMAIN callers : raceCompiled(c)
  \/ \E c \in DOMAIN callers : raceSaveBegin(c)
  \/ \E c \in DOMAIN callers : raceSaveEnd(c)

SpecRace == InitRace /\ [][NextRace]_vars

(***************************************************************************)
(* The runCommand invocations of one call, event by event.  The process,   *)
(* its 'error' and 'close' events and the timer are separate: 'close' is   *)
(* emitted once the process has ended and its stdio streams are closed,    *)
(* which may be long after the exit; child.kill only sends the signal.     *)
(***************************************************************************)
\* what the spawned command does: it exits on its own, it never does, or it
\* cannot be spawned
Behaviours == {"exit", "hang", "fail"}

\* spawn, the locals of the promise executor, setTimeout
Spawned(b) ==
  [beh |-> b, proc |-> IF b = "fail" THEN "none" ELSE "alive",
   finished |-> FALSE, timer |-> "armed", signalled |-> FALSE, events |-> {},
   resolved |-> 0, out |-> <<>>, exitedFirst |-> FALSE]

\* resolve(value): the promise takes the first value only
Resolve(p, timedOut) ==
  [p EXCEPT !.resolved = @ + 1,
            !.out = IF @ = <<>> THEN <<[timedOut |-> timedOut]>> ELSE @]

\* handlers that do not look at the finished flag
HandleUnguarded(p, event) ==
  Resolve([p EXCEPT !.events = @ \cup {event}, !.finished = TRUE, !.timer = "cleared"], FALSE)

\* child.on('error') and child.on('close')
Handle(p, event) ==
  IF p.finished THEN [p EXCEPT !.events = @ \cup {event}]
  ELSE Resolve([p EXCEPT !.events = @ \cup {event}, !.finished = TRUE,
                         !.timer = IF @ = "armed" THEN "cleared" ELSE @], FALSE)

\* the setTimeout callback: child.kill('SIGKILL') and resolve
Expire(p) ==
  IF p.finished THEN [p EXCEPT !.timer = "fired"]
  ELSE Resolve([p EXCEPT !.timer = "fired", !.finished = TRUE, !.signalled = TRUE,
                         !.exitedFirst = (p.proc = "exited")], TRUE)

\* the await of the call continues when the promise of its last runCommand
\* is resolved
Awaited(i, q) ==
  IF i = Len(procs) /\ procs[i].out = <<>> /\ q.out # <<>> THEN "ran" ELSE pc

runVars ==
  <<compileCache, cacheFiles, op, language, code, testcases, wsRoot, wsFiles, compileResult,
    child, execResult, results, overallStatus, ret, trace, spawned, killed, runs, focus, prev,
    fnIn, fnOut, disk, callers, partial, missing>>

InitRun == Idle /\ NoRace /\ Installed /\ focus = <<>> /\ fnIn = <<>> /\ fnOut = <<>> /\ disk = "ok"

\* await runCommand(...): the warm-up or the next case
runSpawn ==
  /\ pc \in {"idle", "ran"} /\ Len(procs) < MaxRuns
  /\ \E b \in Behaviours : procs' = Append(procs, Spawned(b))
  /\ pc' = "running"
  /\ UNCHANGED <<removal, runVars>>

\* return and the finally block: the removal of the workspace is requested
runReturn ==
  /\ pc = "ran"
  /\ pc' = "done"
  /\ removal' = "pending"
  /\ UNCHANGED <<procs, runVars>>

\* the process ends: on its own, or after SIGKILL was sent to it
procExits(i) ==
  /\ procs[i].proc = "alive"
  /\ procs[i].beh = "exit" \/ procs[i].signalled
  /\ procs' = [procs EXCEPT ![i].proc = "exited"]
  /\ UNCHANGED <<pc, removal, runVars>>

\* 'error' is emitted for a command that could not be spawned
emitError(i) ==
  /\ procs[i].beh = "fail" /\ "error" \notin procs[i].events
  /\ LET q == Handle(procs[i], "error")
     IN procs' = [procs EXCEPT ![i] = q] /\ pc' = Awaited(i, q)
  /\ UNCHANGED <<removal, runVars>>

\* 'close' is emitted: after the process has ended and its streams are closed,
\* or after the 'error' of a failed spawn
emitClose(i) ==
  /\ "close" \notin procs[i].events
  /\ procs[i].proc = "exited" \/ "error" \in procs[i].events
  /\ LET q == Handle(procs[i], "close")
     IN procs' = [procs EXCEPT ![i] = q] /\ pc' = Awaited(i, q)
  /\ UNCHANGED <<removal, runVars>>

\* the timer expires; the 'error' of a failed spawn is emitted on the next
\* tick, before any timer
timerFires(i) ==
  /\ procs[i].timer = "armed" /\ procs[i].beh # "fail"
  /\ LET q == Expire(procs[i])
     IN procs' = [procs EXCEPT ![i] = q] /\ pc' = Awaited(i, q)
  /\ UNCHANGED <<removal, runVars>>

NextRun ==
  \/ runSpawn
  \/ runReturn
  \/ \E i \in DOMAIN procs : procExits(i)
  \/ \E i \in DOMAIN procs : emitError(i)
  \/ \E i \in DOMAIN procs : emitClose(i)
  \/ \E i \in DOMAIN procs : timerFires(i)

SpecRun == InitRun /\ [][NextRun]_vars

(***************************************************************************)
(* Properties                                                              *)
(***************************************************************************)
\* a judgeSubmission call has returned after a successful compile step
Judged ==
  /\ pc = "done" /\ op = "judge"
  /\ compileResult # <<>> /\ compileResult[1].ok
  /\ testcases # <<>>

\* the order the specification fixes on the case verdicts
Rank(status) ==
  CASE status = "Accepted" -> 0
    [] status = "Wrong Answer" -> 1
    [] status = "Runtime Error" -> 2
    [] status = "Time Limit Exceeded" -> 3

\* the run of a history entry did not end OK
Failed(r) == r.timedOut \/ r.code # 0

\* C1: when judgeSubmission returns after a successful compile, the overall
\* status is the status of some case result and no case result ranks above it
\* in Accepted < Wrong Answer < Runtime Error < Time Limit Exceeded, in every
\* order of the test case list.
C1_OverallIsWorstCase ==
  (Judged /\ ret[1].results # <<>>) =>
    /\ \E i \in DOMAIN ret[1].results : ret[1].results[i].status = ret[1].status
    /\ \A i \in DOMAIN ret[1].results : Rank(ret[1].results[i].status) <= Rank(ret[1].status)

\* a call whose worst case comes first and whose last case is a better one
C1_Witness ==
  /\ Judged /\ Len(ret[1].results) >= 2
  /\ ret[1].results[1].status = "Runtime Error"
  /\ ret[1].results[Len(ret[1].results)].status = "Wrong Answer"
  /\ \E i \in DOMAIN ret[1].results : ret[1].results[i].status = "Time Limit Exceeded"
  /\ ret[1].status = "Time Limit Exceeded"

\* C3: once the compiler of a judgeSubmission call has exited non-zero or has
\* been killed by the compile timeout, the call has returned 'Compile Error'
\* with an empty results list and no score field, and it has spawned neither
\* the warm-up run nor a test case run.
C3_CompileErrorShortCircuits ==
  (op = "judge" /\ trace.compiler \in {"error", "timeout"}) =>
    /\ pc = "done"
    /\ ret[1].status = "Compile Error"
    /\ ret[1].results = <<>>
    /\ "score" \notin DOMAIN ret[1]
    /\ spawned.warmup = 0 /\ spawned.run = 0

\* a call on a non-empty test case list whose compiler was killed by the timer
C3_Witness ==
  /\ op = "judge" /\ pc = "done"
  /\ trace.compiler = "timeout" /\ killed.compile = 1
  /\ testcases # <<>> /\ Len(testcases[1]) >= 1
  /\ ret[1].status = "Compile Error"

\* C5: runSamples runs the inputs in order and no input after a run that
\* timed out or exited non-zero; when it returns after a successful compile,
\* with the first failing run at position k (0-based) the results are exactly
\* k+1 entries, the first k OK, the last one and the overall status that
\* failure's status, and without a failing run there is one OK entry per input
\* and the overall status is OK.
C5_SamplesFailFast ==
  (op = "samples") =>
    /\ \A i \in DOMAIN runs : runs[i].input = testcases[1][i]
    /\ \A i \in DOMAIN runs : Failed(runs[i]) => (i = Len(runs) /\ spawned.run = i)
    /\ (pc = "done" /\ compileResult # <<>> /\ compileResult[1].ok) =>
         LET rs == ret[1].results
             n == Len(testcases[1])
         IN /\ Len(rs) = Len(runs) /\ spawned.run = Len(rs)
            /\ \A i \in DOMAIN rs :
                 rs[i].status = IF runs[i].timedOut THEN "Time Limit Exceeded"
                                ELSE IF runs[i].code # 0 THEN "Runtime Error" ELSE "OK"
            /\ IF \E i \in DOMAIN runs : Failed(runs[i])
               THEN /\ Len(rs) <= n
                    /\ \A i \in 1..(Len(rs) - 1) : rs[i].status = "OK"
                    /\ rs[Len(rs)].status # "OK"
                    /\ ret[1].status = rs[Len(rs)].status
               ELSE /\ Len(rs) = n
                    /\ \A i \in DOMAIN rs : rs[i].status = "OK"
                    /\ ret[1].status = "OK"

\* three inputs, the second one fails: two entries, the third input never run
C5_Witness ==
  /\ op = "samples" /\ pc = "done"
  /\ Len(testcases[1]) = 3
  /\ Len(ret[1].results) = 2
  /\ ret[1].results[1].status = "OK"
  /\ ret[1].results[2].status = "Runtime Error"
  /\ ret[1].status = "Runtime Error"
  /\ spawned.run = 2

\* C6: when judgeSubmission returns after a successful compile, every test
\* case has been run once, in input order, and results has one entry per test
\* case with results[i].index = i that reflects the outcome of the i-th run,
\* whatever the verdicts of the earlier cases.
C6_EveryCaseJudged ==
  Judged =>
    LET rs == ret[1].results
        tcs == testcases[1]
    IN /\ Len(rs) = Len(tcs) /\ Len(runs) = Len(tcs) /\ spawned.run = Len(tcs)
       /\ \A i \in DOMAIN rs :
            /\ rs[i].index = i - 1
            /\ runs[i].input = tcs[i].input
            /\ (rs[i].status = "Time Limit Exceeded") <=> runs[i].timedOut
            /\ (rs[i].status = "Runtime Error") <=> (~runs[i].timedOut /\ runs[i].code # 0)
            /\ rs[i].status \in {"Accepted", "Wrong Answer", "Runtime Error",
                                 "Time Limit Exceeded"}

\* the first case times out and the later ones are still judged
C6_Witness ==
  /\ Judged /\ Len(ret[1].results) >= 2
  /\ ret[1].results[1].status = "Time Limit Exceeded"
  /\ ret[1].results[2].status = "Wrong Answer"
  /\ ret[1].results[Len(ret[1].results)].status = "Accepted"

\* C2: the score judgeSubmission returns for a non-empty results list is
\* 100 * (number of Accepted results) / (number of results) rounded to the
\* nearest integer, and lies in 0..100.
C2_ScoreIsRoundedPercentage ==
  (fnOut # <<>> /\ fnIn[2] > 0) =>
    /\ fnOut[1].score = ExactRound(fnIn[1], fnIn[2])
    /\ fnOut[1].score \in 0..100

\* C4: a run of a test case that the run timer ends is classified Time Limit
\* Exceeded, and every judgeSubmission call that has started returns, whether
\* or not its children exit on their own.
C4_NeverHangs ==
  /\ [](op = "judge" =>
          \A i \in DOMAIN results :
            runs[i].timedOut => results[i].status = "Time Limit Exceeded")
  /\ ((pc \notin {"idle", "done"}) ~> (pc = "done"))

\* a call has returned although its warm-up and every one of its case runs
\* had to be killed by the timer
C4_Witness ==
  /\ pc = "done" /\ op = "judge"
  /\ spawned.warmup = 1 /\ killed.warmup = 1
  /\ Len(ret[1].results) >= 2
  /\ killed.run = Len(ret[1].results)
  /\ \A i \in DOMAIN ret[1].results : ret[1].results[i].status = "Time Limit Exceeded"

\* C7: a judgeSubmission call on the same language, code and test cases as
\* the previous call returns the same status, the same per-case statuses and
\* the same score as the previous call.
C7_SameVerdictTwice ==
  (pc = "done" /\ prev # <<>>) =>
    /\ Summary.status = prev[1].status
    /\ Summary.statuses = prev[1].statuses
    /\ Summary.score = prev[1].score

\* the previous call on this submission ended with a successful compile step
PrevCompiled == prev # <<>> /\ (prev[1].trace.compiler = "ok" \/ prev[1].trace.copy = "ok")

\* the previous call on this submission left its artifact recorded in the cache map
PrevRecorded == prev # <<>> /\ (prev[1].trace.write = "ok" \/ prev[1].trace.copy = "ok")

\* C8 as stated: after a call whose compilation succeeded, a compile step that
\* found the cached artifact file in place reports cached = true and has
\* spawned no compiler.
C8_SecondCallUsesCache ==
  (PrevCompiled /\ compileResult # <<>> /\ trace.file /\ trace.copy # "gone") =>
    (compileResult[1].cached /\ spawned.compile = 0)

\* C8, amended: after a call that left the artifact recorded in the cache
\* map, a compile step that found the cached artifact file in place and whose
\* copy of it into the workspace did not fail reports cached = true and has
\* spawned no compiler.
C8_SecondCallUsesCacheIfCopied ==
  (PrevRecorded /\ compileResult # <<>> /\ trace.file /\ trace.copy \notin {"gone", "error"}) =>
    (compileResult[1].ok /\ compileResult[1].cached /\ spawned.compile = 0)

\* the second call found entry and file, copied the artifact, compiled nothing
C8_Witness ==
  /\ PrevRecorded /\ prev[1].compiles = 1
  /\ compileResult # <<>> /\ compileResult[1].cached
  /\ trace.entry /\ trace.file /\ trace.copy = "ok"
  /\ spawned.compile = 0
  /\ pc = "done" /\ ret[1].status = "Accepted"

\* the lookup of this call found the key in the cache map but not its file
Stale == trace.entry /\ ~trace.file

\* C9: a call whose lookup finds the key in the cache map but the artifact
\* file missing removes the entry and compiles again; it does not fail for
\* the missing file, and it returns what the previous call returned when that
\* one had compiled the source on a miss.
C9_StaleEntryRecompiled ==
  (op = "judge" /\ Stale) =>
    /\ spawned.compile = 1
    /\ trace.copy = "none"
    /\ (pc = "compiling" => Key \notin compileCache)
    /\ (pc = "done" =>
          /\ ret[1].status \notin {"Compile Error"}
          /\ (testcases # <<>> => ret[1].status # "Judge Error")
          /\ (prev # <<>> /\ prev[1].compiles = 1) =>
               /\ Summary.status = prev[1].status
               /\ Summary.statuses = prev[1].statuses
               /\ Summary.score = prev[1].score)

\* the file of a multi-class Java submission was removed between two calls
\* and the second call judged it as the first one had
C9_Witness ==
  /\ op = "judge" /\ Stale /\ pc = "done"
  /\ language = "Java"
  /\ prev # <<>> /\ prev[1].compiles = 1 /\ prev[1].trace.write = "ok"
  /\ Len(ret[1].results) >= 2
  /\ ret[1].results[1].status = "Accepted"
  /\ Summary.statuses = prev[1].statuses

\* the text with every \r\n pair replaced by \n
UnixLines(text) ==
  LET keep == {i \in DOMAIN text : ~(text[i] = "\r" /\ i < Len(text) /\ text[i + 1] = "\n")}
      nth(j) == CHOOSE i \in keep : Cardinality({k \in keep : k <= i}) = j
  IN [j \in 1..Cardinality(keep) |-> text[nth(j)]]

\* the text without the whitespace at its very end
WithoutEnd(text) ==
  LET solid == {i \in DOMAIN text : text[i] \notin WhiteSpace}
      last == IF solid = {} THEN 0 ELSE CHOOSE i \in solid : \A k \in solid : k <= i
  IN SubSeq(text, 1, last)

\* the two texts differ at most in \r\n versus \n and in whitespace at the end
SameButEndings(a, b) == WithoutEnd(UnixLines(a)) = WithoutEnd(UnixLines(b))

\* C10: a run that exits cleanly and whose stdout differs from the expected
\* output at most in \r\n versus \n line endings and in whitespace at the very
\* end of the text is classified Accepted.
C10_EndingsIgnored ==
  (fnOut # <<>> /\ SameButEndings(fnIn[1], fnIn[2])) => fnOut[1] = "Accepted"

\* stdout "3" followed by a blank and a newline against the expected "3\r\n"
C10_Witness ==
  /\ fnOut = <<"Accepted">>
  /\ fnIn[1] = <<"3", " ", "\n">>
  /\ fnIn[2] = <<"3", "\r", "\n">>

\* C11: a run that exits cleanly is Accepted exactly when its stdout and the
\* expected output are identical after line endings are put to one convention
\* and trailing whitespace is removed; a difference anywhere else, leading
\* whitespace included, is Wrong Answer.
C11_ExactAfterTrailingTrim ==
  (fnOut # <<>>) =>
    /\ fnOut[1] \in {"Accepted", "Wrong Answer"}
    /\ (fnOut[1] = "Accepted") <=> SameButEndings(fnIn[1], fnIn[2])

\* C12: no public operation throws or rejects; whatever fails, workspace
\* creation included, the call ends by returning a result object.
C12_NeverRejects ==
  /\ pc # "thrown"
  /\ (pc = "done" => (ret # <<>> /\ "status" \in DOMAIN ret[1]))

\* C13: when a call has ended, by a verdict, a compile error, the
\* unsupported-language result or an exception, the removal of every workspace
\* directory it created has been requested.
C13_WorkspaceReleased ==
  (pc \in {"done", "thrown"}) => ~wsRoot

\* C14: during a call for an unsupported language no directory exists that the
\* call created, no file has been written and no process has been spawned.
C14_UnsupportedTouchesNothing ==
  (op # "none" /\ language \notin Supported) =>
    /\ ~wsRoot /\ wsFiles = {}
    /\ spawned = NoSpawns /\ child = <<>>

\* C15: a judgeSubmission call on a supported language and compilable code
\* with an absent or empty test case list returns 'Judge Error', and no call
\* that ran no test case returns 'Accepted'.
C15_NoCasesIsJudgeError ==
  (pc = "done" /\ op = "judge") =>
    /\ (compileResult # <<>> /\ compileResult[1].ok
        /\ (testcases = <<>> \/ testcases[1] = <<>>)) => ret[1].status = "Judge Error"
    /\ (spawned.run = 0) => ret[1].status # "Accepted"

\* C16 as stated: no step of a call removes an artifact file from the cache
\* directory, and a step removes a cache entry only if it is the lookup of
\* that same key and the existence check on its file fails.
C16_EvictedOnlyOnFailedLookup ==
  [][/\ (pc' # pc) => cacheFiles \subseteq cacheFiles'
     /\ (compileCache \ compileCache' # {}) =>
          /\ compileCache \ compileCache' = {Key}
          /\ pc = "compile" /\ Key \notin cacheFiles]_vars

\* C16, amended: no step of a call removes an artifact file from the cache
\* directory; a step removes a cache entry only if it belongs to the compile
\* step for that same key and is either the lookup whose existence check on
\* the file fails or the failed copy of the file into the workspace; the step
\* that ends a call removes nothing.
C16_EvictedOnlyInCompileStep ==
  [][/\ (pc' # pc) => cacheFiles \subseteq cacheFiles'
     /\ (pc' \in {"done", "thrown", "idle"}) => compileCache \subseteq compileCache'
     /\ (compileCache \ compileCache' # {}) =>
          /\ compileCache \ compileCache' = {Key}
          /\ \/ pc = "compile" /\ Key \notin cacheFiles
             \/ pc = "cachecopy" /\ trace'.copy \in {"error", "gone"}]_vars

\* the copy of an existing cached file has failed, the entry is gone and the
\* compiler runs, while another key is still cached
C16_Witness ==
  /\ pc = "compiling"
  /\ trace.entry /\ trace.file /\ trace.copy = "error"
  /\ Key \notin compileCache /\ Key \in cacheFiles
  /\ compileCache # {}

\* C17: a call whose write of the compiled artifact into the cache failed
\* does not fail for it and records no cache entry: it goes on to the warm-up
\* and to every test case and returns what the previous call on the same
\* submission returned after writing the artifact; and the call after one
\* whose write failed compiles again.
C17_CacheWriteFailureSwallowed ==
  /\ (op = "judge" /\ trace.write = "failed") =>
       /\ pc # "thrown"
       /\ Key \notin compileCache
       /\ compileResult # <<>> /\ compileResult[1].ok /\ ~compileResult[1].cached
       /\ (pc = "done") =>
            /\ ret[1].status # "Compile Error"
            /\ spawned.warmup = 1
            /\ (testcases # <<>>) =>
                 /\ ret[1].status # "Judge Error"
                 /\ spawned.run = Len(testcases[1])
            /\ (prev # <<>> /\ prev[1].trace.write = "ok") =>
                 /\ Summary.status = prev[1].status
                 /\ Summary.statuses = prev[1].statuses
                 /\ Summary.score = prev[1].score
  /\ (prev # <<>> /\ prev[1].trace.write = "failed" /\ compileResult # <<>>) =>
       (spawned.compile = 1 /\ ~compileResult[1].cached)

\* the artifact of the previous call was written; this call had to compile
\* again, failed to write its artifact and still judged every case as before
C17_Witness ==
  /\ op = "judge" /\ pc = "done"
  /\ trace.write = "failed"
  /\ prev # <<>> /\ prev[1].trace.write = "ok"
  /\ Len(ret[1].results) >= 2
  /\ ret[1].results[1].status = "Accepted"
  /\ Summary.statuses = prev[1].statuses

\* C18: every warm-up and case process of a call is started from a file that
\* is in the call's own workspace, with the workspace as working directory,
\* and a compile step served from the cache has copied the cached artifact
\* into the workspace before any of them starts.
C18_RunsFromOwnWorkspace ==
  /\ (child # <<>> /\ child[1].purpose \in {"warmup", "run"}) =>
       /\ wsRoot
       /\ child[1].cwd = "workspace" /\ child[1].dir = "workspace"
       /\ child[1].file \in wsFiles
  /\ (compileResult # <<>> /\ compileResult[1].ok /\ compileResult[1].cached) =>
       /\ trace.copy = "ok"
       /\ (pc # "done") => CachedTarget(language) \in wsFiles

\* a case run of a C++ submission whose executable came from the cache
C18_Witness ==
  /\ child # <<>> /\ child[1].purpose = "run"
  /\ language = "C++"
  /\ compileResult[1].cached /\ trace.copy = "ok"
  /\ spawned.compile = 0
  /\ child[1].file = "main.exe" /\ "main.exe" \in wsFiles

\* C19: with concurrent calls on one key, no call whose lookup reported a hit
\* has copied a cache file that was not completely written, and a key in the
\* cache map has a file that was completely written once.
C19_NoHalfWrittenArtifact ==
  /\ \A c \in DOMAIN callers : callers[c].got # "partial"
  /\ (RaceKey \in compileCache) =>
       (RaceKey \in cacheFiles /\ \E c \in DOMAIN callers : callers[c].got = "built")

RECURSIVE SumDurations(_)
SumDurations(rs) == IF Len(rs) = 0 THEN 0 ELSE rs[1].duration + SumDurations(Tail(rs))

\* the status that ranks highest among Accepted and the given statuses
Worst(statuses) ==
  CHOOSE s \in statuses \cup {"Accepted"} :
    \A t \in statuses \cup {"Accepted"} : Rank(t) <= Rank(s)

\* C20: the value judgeSubmission returns after a successful compile is
\* determined by the outcomes of the scored case runs alone, whatever the
\* warm-up run did: each result carries the status and the duration of its
\* run, the status is the worst of them, the score counts the Accepted ones,
\* and timeMs is the sum of the durations of the scored runs, without the
\* warm-up and the compiler.
C20_WarmUpLeavesNoTrace ==
  Judged =>
    LET rs == ret[1].results
        tcs == testcases[1]
        accepted == Cardinality({i \in DOMAIN rs : rs[i].status = "Accepted"})
    IN /\ spawned.warmup = 1
       /\ Len(rs) = Len(runs)
       /\ \A i \in DOMAIN rs :
            /\ rs[i].timeMs = runs[i].duration
            /\ rs[i].status = caseStatus(runs[i], normalizeOutput(tcs[i].output))
       /\ ret[1].status = Worst({rs[i].status : i \in DOMAIN rs})
       /\ ret[1].score = scoreOf(accepted, Len(rs))
       /\ ret[1].timeMs = SumDurations(runs)

\* a compiled submission whose warm-up was killed by the timer and whose two
\* cases are Accepted in 10 ms each
C20_Witness ==
  /\ Judged /\ language = "C++"
  /\ spawned.compile = 1 /\ killed.warmup = 1
  /\ Len(ret[1].results) = 2
  /\ ret[1].status = "Accepted" /\ ret[1].score = 100
  /\ ret[1].timeMs = 20

\* C21 as stated: runSample and runSamples each perform, after a successful
\* compile and before the first real input is run, exactly one warm-up run
\* with empty input, and its result is discarded.
C21_SamplesWarmUpOnce ==
  (op \in {"sample", "samples"}) =>
    /\ spawned.warmup <= 1
    /\ (spawned.run >= 1) => spawned.warmup = 1
    /\ (child # <<>> /\ child[1].purpose = "warmup") =>
         (child[1].input = "" /\ spawned.run = 0 /\ compileResult # <<>> /\ compileResult[1].ok)
    /\ Len(results) <= spawned.run

\* C21, amended: runSample performs, after a successful compile and before it
\* runs its input, exactly one warm-up run with empty input, and what it
\* returns is the outcome of the run on the input alone; runSamples performs
\* no warm-up: the only processes it spawns after the compile step are the
\* runs of its inputs.
C21_WarmUpInSampleOnly ==
  /\ (op = "sample") =>
       /\ spawned.warmup <= 1 /\ spawned.run <= 1
       /\ (spawned.run >= 1) => spawned.warmup = 1
       /\ (child # <<>> /\ child[1].purpose = "warmup") =>
            (child[1].input = "" /\ spawned.run = 0 /\ compileResult # <<>> /\ compileResult[1].ok)
       /\ (pc = "done" /\ compileResult # <<>> /\ compileResult[1].ok) =>
            /\ spawned.warmup = 1 /\ Len(runs) = 1
            /\ runs[1].input = testcases[1][1]
            /\ ret[1].status = (IF runs[1].timedOut THEN "Time Limit Exceeded"
                                ELSE IF runs[1].code # 0 THEN "Runtime Error" ELSE "OK")
            /\ ret[1].timeMs = runs[1].duration
            /\ ret[1].output = runs[1].stdout
  /\ (op = "samples") =>
       /\ spawned.warmup = 0 /\ killed.warmup = 0
       /\ (child # <<>>) => child[1].purpose \in {"compile", "run"}
       /\ spawned.run = Len(runs) + (IF pc = "running" THEN 1 ELSE 0)

\* a runSample call whose warm-up was killed by the timer and whose run on the
\* input ended OK
C21_Witness ==
  /\ op = "sample" /\ pc = "done"
  /\ spawned.warmup = 1 /\ killed.warmup = 1
  /\ spawned.run = 1 /\ ret[1].status = "OK"
  /\ ret[1].timeMs = 10

\* C22: a spawn that fails is delivered as an outcome with a non-zero exit
\* code, timedOut = false and the error text in stderr, and the call does not
\* throw: with the compiler missing judgeSubmission returns 'Compile Error'
\* with no results, and with the interpreter or the JVM missing it returns one
\* 'Runtime Error' result per test case.
C22_SpawnFailureIsData ==
  /\ [][(child # <<>> /\ child[1].beh.kind = "fail" /\ child' = <<>>) =>
          /\ execResult' # <<>>
          /\ execResult'[1].code # 0 /\ ~execResult'[1].timedOut
          /\ execResult'[1].stderr = ErrorMessage
          /\ pc' # "thrown"]_vars
  /\ [](pc # "thrown")
  /\ []((op = "judge" /\ pc = "done" /\ CompilerOf(language) \in missing
         /\ language \in {"C++", "Java"}) =>
          /\ ret[1].status = "Compile Error" /\ ret[1].results = <<>>
          /\ spawned.compile = 1 /\ spawned.warmup = 0 /\ spawned.run = 0)
  /\ []((op = "judge" /\ pc = "done" /\ RuntimeOf(language) \in missing
         /\ compileResult # <<>> /\ compileResult[1].ok) =>
          /\ Len(ret[1].results) = Len(testcases[1])
          /\ spawned.run = Len(testcases[1])
          /\ \A i \in DOMAIN ret[1].results : ret[1].results[i].status = "Runtime Error"
          /\ (ret[1].results # <<>>) => ret[1].status = "Runtime Error")

\* java is missing, javac is not: the source compiled, and the three cases are
\* Runtime Error each
C22_Witness ==
  /\ op = "judge" /\ pc = "done"
  /\ language = "Java" /\ missing = {JAVA_CMD}
  /\ spawned.compile = 1 /\ trace.compiler = "ok"
  /\ Len(ret[1].results) = 3
  /\ \A i \in DOMAIN ret[1].results : ret[1].results[i].status = "Runtime Error"
  /\ ret[1].status = "Runtime Error"

\* C23: a call returns its value with the removal of the workspace started
\* and not yet settled; when the removal settles, by success or by failure,
\* the returned value stays what it was, the call does not turn into a thrown
\* error, and a 'Judge Error' has another cause than the removal: the
\* language, an absent test case list, or nothing else.
C23_CleanupNeverSurfaces ==
  /\ [][(pc # "done" /\ pc' = "done") => (ret' # <<>> /\ removal' = "pending")]_vars
  /\ [][(removal = "pending" /\ removal' # "pending" /\ pc' # "idle") =>
          (pc = "done" /\ pc' = "done" /\ ret' = ret)]_vars
  /\ []((removal = "failed") =>
          /\ pc = "done" /\ ret # <<>>
          /\ (ret[1].status = "Judge Error") =>
               (language \notin Supported \/ (op = "judge" /\ testcases = <<>>))
          /\ Judged => ret[1] = Verdict(overallStatus, results))

\* the removal of the workspace of a judged submission failed and the verdict
\* is Accepted with both cases
C23_Witness ==
  /\ Judged /\ removal = "failed"
  /\ Len(ret[1].results) = 2
  /\ ret[1].status = "Accepted" /\ ret[1].score = 100

\* the outcome of every runCommand invocation is delivered at most once, by
\* the timer with timedOut = true after SIGKILL was sent, or by 'close' or
\* 'error' with timedOut = false and the timer cancelled, and an event that
\* comes later changes nothing
OneOutcome ==
  /\ [](\A i \in DOMAIN procs :
          LET p == procs[i]
          IN /\ p.resolved <= 1
             /\ (p.out # <<>>) <=> (p.resolved = 1)
             /\ (p.out # <<>>) <=> p.finished
             /\ (p.out # <<>> /\ p.out[1].timedOut) =>
                  (p.timer = "fired" /\ p.signalled)
             /\ (p.out # <<>> /\ ~p.out[1].timedOut) =>
                  (p.timer = "cleared" /\ ~p.signalled /\ p.events # {}))
  /\ [][\A i \in DOMAIN procs :
          procs[i].out # <<>> => (i \in DOMAIN procs' /\ procs'[i].out = procs[i].out)]_vars

Alive == {i \in DOMAIN procs : procs[i].proc = "alive"}

\* C30: within one call at most one child process is alive at any time: the
\* process of a run whose outcome has been delivered, by the timer included,
\* has ended when the next run is spawned and when the removal of the
\* workspace is requested.
C30_OneChildAlive ==
  /\ Cardinality(Alive) <= 1
  /\ \A i \in DOMAIN procs : (i < Len(procs)) => procs[i].proc # "alive"
  /\ (removal = "pending") => Alive = {}

\* C25: every execution outcome gets exactly one of the four statuses, with
\* fixed precedence: Time Limit Exceeded iff the outcome is timedOut, whatever
\* its exit code and its output; otherwise Runtime Error iff the exit code is
\* not 0; otherwise Wrong Answer iff the normalized stdout differs from the
\* normalized expected output; otherwise Accepted.
C25_ClassificationIsTotal ==
  (fnOut # <<>>) =>
    LET e == fnIn[1]
        same == normalizeOutput(e.stdout) = normalizeOutput(fnIn[2])
        st == fnOut[1]
    IN /\ st \in {"Time Limit Exceeded", "Runtime Error", "Wrong Answer", "Accepted"}
       /\ (st = "Time Limit Exceeded") <=> e.timedOut
       /\ (st = "Runtime Error") <=> (~e.timedOut /\ e.code # 0)
       /\ (st = "Wrong Answer") <=> (~e.timedOut /\ e.code = 0 /\ ~same)
       /\ (st = "Accepted") <=> (~e.timedOut /\ e.code = 0 /\ same)

\* a run killed by the timer after it had printed the expected output
C25_Witness ==
  /\ fnOut = <<"Time Limit Exceeded">>
  /\ fnIn[1].timedOut /\ fnIn[1].code = -1
  /\ fnIn[1].stdout = <<"3", "\n">> /\ fnIn[2] = <<"3">>

\* C26: within one judgeSubmission call a process is spawned only when no
\* other run of the call is in flight and the outcome of the previous one has
\* been taken; the compiler is spawned at most once, for a compiled language
\* whose key is not in the cache at that moment; then comes one warm-up, then
\* the cases in input order, each spawned once: a call with N test cases that
\* returns after a successful compile has spawned one warm-up and N scored runs.
C26_RunsInSequence ==
  /\ [][(op = "judge" /\ spawned' # spawned /\ pc # "done") =>
          /\ child = <<>> /\ execResult = <<>> /\ child' # <<>>
          /\ (spawned'.compile > spawned.compile) =>
               (language \in {"C++", "Java"} /\ Key \notin compileCache'
                /\ spawned.warmup = 0 /\ spawned.run = 0)
          /\ (spawned'.warmup > spawned.warmup) =>
               (compileResult # <<>> /\ compileResult[1].ok /\ spawned.run = 0)
          /\ (spawned'.run > spawned.run) =>
               (spawned.warmup = 1 /\ Len(results) = spawned.run
                /\ child'[1].input = testcases[1][spawned.run + 1].input)]_vars
  /\ []((op = "judge") =>
          /\ spawned.compile <= 1 /\ spawned.warmup <= 1
          /\ (language = "Python") => spawned.compile = 0
          /\ (compileResult # <<>> /\ compileResult[1].ok /\ compileResult[1].cached) =>
               spawned.compile = 0
          /\ (testcases # <<>>) => spawned.run <= Len(testcases[1])
          /\ \A i \in DOMAIN runs : runs[i].input = testcases[1][i].input
          /\ Judged => (spawned.warmup = 1 /\ spawned.run = Len(testcases[1])
                        /\ Len(runs) = Len(testcases[1])))

\* a compiled C++ submission with three cases, the second killed by the timer:
\* one compiler, one warm-up, three runs
C26_Witness ==
  /\ Judged /\ language = "C++"
  /\ Len(testcases[1]) = 3
  /\ spawned = [compile |-> 1, warmup |-> 1, run |-> 3]
  /\ runs[2].timedOut /\ ~runs[3].timedOut

\* the paths of the host in resolution order: the override, the installation
\* directory named by the home variable, the installations the finders found
Ordered(tool, host) ==
  LET all == <<OverrideOf(tool)>>
             \o (IF tool = PYTHON_CMD THEN <<>> ELSE <<HomeOf(tool)>>) \o WinOf(tool)
      set == (IF host.override THEN {OverrideOf(tool)} ELSE {})
             \cup (IF host.home THEN {HomeOf(tool)} ELSE {}) \cup host.found
  IN [order |-> all, set |-> set]

\* the positions of the configured paths that exist on disk
Existing(tool, host, exists) ==
  LET o == Ordered(tool, host)
  IN {i \in DOMAIN o.order : o.order[i] \in o.set /\ o.order[i] \in exists}

\* the first configured path, in resolution order, that exists on disk
FirstExisting(tool, host, exists) ==
  LET o == Ordered(tool, host)
      e == Existing(tool, host, exists)
  IN o.order[CHOOSE i \in e : \A j \in e : i <= j]

\* C27 as stated: the locator returns the first candidate, in the order
\* override, installation directories, that exists on disk, and the bare
\* command name if no candidate exists, for every combination of set and
\* unset variables and of existing and missing files.
C27_FirstExistingElseBare ==
  (fnOut # <<>>) =>
    fnOut[1] = IF Existing(fnIn[1], fnIn[2], fnIn[3]) # {}
               THEN FirstExisting(fnIn[1], fnIn[2], fnIn[3])
               ELSE <<"bare", fnIn[1]>>

\* C27, amended: the locator returns the first candidate, in the order
\* override, installation directories, that exists on disk; if no candidate
\* exists it returns the value of the override variable when that is set, and
\* the bare command name only when it is not.
C27_FirstExistingElseOverride ==
  (fnOut # <<>>) =>
    fnOut[1] = IF Existing(fnIn[1], fnIn[2], fnIn[3]) # {}
               THEN FirstExisting(fnIn[1], fnIn[2], fnIn[3])
               ELSE IF fnIn[2].override THEN OverrideOf(fnIn[1])
               ELSE <<"bare", fnIn[1]>>

\* GPP_PATH names a file that does not exist, MINGW_HOME and WinLibs have a
\* g++: the one under MINGW_HOME is taken
C27_Witness ==
  /\ fnOut = <<HomeOf(GPP_CMD)>>
  /\ fnIn[1] = GPP_CMD
  /\ fnIn[2].override /\ fnIn[2].home /\ <<"winlibs", GPP_CMD>> \in fnIn[2].found
  /\ OverrideOf(GPP_CMD) \notin fnIn[3]
  /\ HomeOf(GPP_CMD) \in fnIn[3] /\ <<"winlibs", GPP_CMD>> \in fnIn[3]

\* C28 as stated: for a verdict with at least one test case, the score is 100
\* exactly when every case is Accepted, which is when the overall status is
\* Accepted, and the score is 0 exactly when no case is Accepted, for every
\* number of test cases.
C28_FullAndZeroScore ==
  (fnOut # <<>> /\ fnIn[2] > 0) =>
    /\ (fnOut[1].score = 100) <=> (fnIn[1] = fnIn[2])
    /\ (fnOut[1].score = 100) <=> (fnOut[1].status = "Accepted")
    /\ (fnOut[1].score = 0) <=> (fnIn[1] = 0)

\* C28, amended: the score is 100 when every case is Accepted and 0 when no
\* case is Accepted; a score of 100 means that every case is Accepted for
\* lists of fewer than 200 cases, and a score of 0 means that no case is
\* Accepted for lists of at most 200 cases.
C28_FullAndZeroScoreBelow200 ==
  (fnOut # <<>> /\ fnIn[2] > 0) =>
    /\ (fnIn[1] = fnIn[2]) => (fnOut[1].score = 100 /\ fnOut[1].status = "Accepted")
    /\ (fnIn[1] = 0) => fnOut[1].score = 0
    /\ (fnIn[2] < 200 /\ fnOut[1].score = 100) =>
         (fnIn[1] = fnIn[2] /\ fnOut[1].status = "Accepted")
    /\ (fnIn[2] <= 200 /\ fnOut[1].score = 0) => fnIn[1] = 0

\* 199 cases with one that is not Accepted: the score is 99
C28_Witness ==
  /\ fnOut # <<>> /\ fnIn = <<198, 199>>
  /\ fnOut[1].score = 99 /\ fnOut[1].status = "Wrong Answer"
  /\ Len(fnOut[1].results) = 199

\* the keys of the submissions whose compiler exits with code 0
Compilable ==
  {getCodeHash(sub[1], sub[2]) :
     sub \in {s \in Submissions : /\ s[1] \in {"C++", "Java"}
                                  /\ CompilerOn(s[1], s[2]).kind = "exit"
                                  /\ CompilerOn(s[1], s[2]).code = 0}}

\* C29: every entry of the cache map is the key of a (language, code) whose
\* compiler exits with code 0; a step adds an entry only for the key of the
\* call, after the compiler of that call exited with code 0 in time and the
\* copy of the artifact into the cache directory is complete; a call whose
\* compiler failed or timed out leaves the map as it is; and no step adds or
\* removes the entry of another key.
C29_EntriesFromGoodCompiles ==
  /\ [](compileCache \subseteq Compilable)
  /\ [][(compileCache' # compileCache) =>
          /\ (compileCache' \ compileCache) \cup (compileCache \ compileCache') = {Key}
          /\ (Key \in compileCache') =>
               /\ pc = "cachewrite" /\ spawned.compile = 1
               /\ trace.compiler = "ok" /\ trace'.write = "ok"
               /\ Key \in cacheFiles']_vars
  /\ [][(trace'.compiler \in {"error", "timeout"} /\ pc' # "idle") =>
          compileCache' = compileCache]_vars

\* the compiler of this call failed and the entries of two other submissions
\* are in the map as before
C29_Witness ==
  /\ pc = "done" /\ trace.compiler = "error"
  /\ Key \notin compileCache
  /\ compileCache = {getCodeHash("C++", "ok"), getCodeHash("Java", "multi")}

====
